---- MODULE Spec2Model ----
(***************************************************************************)
(* Model of AniMehList/convert/converter.py: the MAL XML -> app JSON       *)
(* converter.  Text is modelled as a sequence of one-character strings,    *)
(* an optional value (Python's Optional[T]) as a sequence of length 0      *)
(* (None) or 1 (the value).                                                *)
(***************************************************************************)
EXTENDS Integers, Sequences, FiniteSets, TLC

VARIABLES
    \* infer_season applied to one title
    s_pc, series_title, season,
    \* build_item applied to one <anime> element
    b_pc, anime_el, b_include_dropped, b_infer_season_flag, b_item,
    \* one run of main()
    pc, argv, input_file, include_dropped, infer_season_flag,
    old_output, output_file, idx, items, converted, stdout, stderr, exit_code

season_vars == <<s_pc, series_title, season>>
item_vars == <<b_pc, anime_el, b_include_dropped, b_infer_season_flag, b_item>>
run_vars == <<pc, argv, input_file, include_dropped, infer_season_flag,
              old_output, output_file, idx, items, converted,
              stdout, stderr, exit_code>>
vars == <<season_vars, item_vars, run_vars>>

\* ------------------------------------------------------------------ bounds
\* Longest title, counted in fragments of TitleFragments.
MaxFrags == 3
\* Most <anime> elements in an input document.
MaxRecords == 2

\* ------------------------------------------------------------- characters
None == << >>
Some(x) == <<x>>

UpperCase == <<"A","B","C","D","E","F","G","H","I","J","K","L","M",
               "N","O","P","Q","R","S","T","U","V","W","X","Y","Z">>
LowerCase == <<"a","b","c","d","e","f","g","h","i","j","k","l","m",
               "n","o","p","q","r","s","t","u","v","w","x","y","z">>
DigitChars == <<"0","1","2","3","4","5","6","7","8","9">>

Range(f) == {f[i] : i \in DOMAIN f}
Uppers == Range(UpperCase)
Lowers == Range(LowerCase)
Digits == Range(DigitChars)

\* str.lower() / re.IGNORECASE on one (ASCII) character
LowerOf == [c \in Uppers |-> LowerCase[CHOOSE i \in 1..26 : UpperCase[i] = c]]
LowerChar(c) == IF c \in Uppers THEN LowerOf[c] ELSE c

\* str.lower()
Lower(s) == [i \in 1..Len(s) |-> LowerChar(s[i])]

\* \s of the regexes and the whitespace str.strip() removes
Spaces == {" ", "\t", "\n"}
IsSpace(c) == c \in Spaces

\* [0-9] and \d
IsDigit(c) == c \in Digits

DigitValOf == [c \in Digits |-> (CHOOSE i \in 1..10 : DigitChars[i] = c) - 1]
DigitVal(c) == DigitValOf[c]

\* \w: what \b tells apart from the rest
WordChars == Uppers \cup Lowers \cup Digits \cup {"_"}
IsWordChar(c) == c \in WordChars

\* \b: a word boundary just before position i (1..Len(s)+1)
WordBoundary(s, i) ==
    LET before == i > 1 /\ i - 1 <= Len(s) /\ IsWordChar(s[i - 1])
        after == i >= 1 /\ i <= Len(s) /\ IsWordChar(s[i])
    IN before # after

\* str.strip()
Strip(s) ==
    IF \A i \in 1..Len(s) : IsSpace(s[i])
    THEN << >>
    ELSE LET first == CHOOSE i \in 1..Len(s) :
                          /\ ~IsSpace(s[i])
                          /\ \A j \in 1..(i - 1) : IsSpace(s[j])
             last == CHOOSE i \in 1..Len(s) :
                          /\ ~IsSpace(s[i])
                          /\ \A j \in (i + 1)..Len(s) : IsSpace(s[j])
         IN SubSeq(s, first, last)

\* the literal `lit` stands at position i of s; with ic, ignoring case
LitAt(s, i, lit, ic) ==
    /\ i >= 1
    /\ i + Len(lit) - 1 <= Len(s)
    /\ \A k \in 1..Len(lit) :
           IF ic THEN LowerChar(s[i + k - 1]) = LowerChar(lit[k])
                 ELSE s[i + k - 1] = lit[k]

\* \s* from position i: the position after the longest run of whitespace
RECURSIVE SkipSpaces(_, _)
SkipSpaces(s, i) ==
    IF i <= Len(s) /\ IsSpace(s[i]) THEN SkipSpaces(s, i + 1) ELSE i

\* int() of a run of ASCII digits
RECURSIVE DigitsValue(_)
DigitsValue(ds) ==
    IF Len(ds) = 0 THEN 0
    ELSE 10 * DigitsValue(SubSeq(ds, 1, Len(ds) - 1)) + DigitVal(ds[Len(ds)])

\* ([0-9]{1,2})\b at position i: greedy, two digits first, then one.
\* The captured text, or None.
DigitsThenBoundary(s, i) ==
    IF /\ i + 1 <= Len(s) /\ IsDigit(s[i]) /\ IsDigit(s[i + 1])
       /\ WordBoundary(s, i + 2)
    THEN Some(SubSeq(s, i, i + 1))
    ELSE IF i <= Len(s) /\ IsDigit(s[i]) /\ WordBoundary(s, i + 1)
    THEN Some(SubSeq(s, i, i))
    ELSE None

\* ------------------------------------------------------------ the regexes
Str_eason == <<"e","a","s","o","n">>
Str_Season == <<"S","e","a","s","o","n">>
Str_Part == <<"P","a","r","t">>

\* RE_S_OR_SEASON_NUM = \bS(?:eason)?\s*([0-9]{1,2})\b, IGNORECASE
S_OR_SEASON_NUM_At(s, i) ==
    IF ~(WordBoundary(s, i) /\ LitAt(s, i, <<"S">>, TRUE))
    THEN None
    ELSE LET withEason ==
                 IF LitAt(s, i + 1, Str_eason, TRUE)
                 THEN DigitsThenBoundary(s, SkipSpaces(s, i + 6))
                 ELSE None
         IN IF withEason # None
            THEN withEason
            ELSE DigitsThenBoundary(s, SkipSpaces(s, i + 1))

\* the ordinal suffix (?:st|nd|rd|th) at position i, IGNORECASE
OrdinalSuffixAt(s, i) ==
    \/ LitAt(s, i, <<"s","t">>, TRUE)
    \/ LitAt(s, i, <<"n","d">>, TRUE)
    \/ LitAt(s, i, <<"r","d">>, TRUE)
    \/ LitAt(s, i, <<"t","h">>, TRUE)

\* the rest of RE_ORDINAL_SEASON after n digits: (?:st|nd|rd|th)\s+Season\b
OrdinalTail(s, j) ==
    /\ OrdinalSuffixAt(s, j)
    /\ LET k == SkipSpaces(s, j + 2)
       IN /\ k > j + 2
          /\ LitAt(s, k, Str_Season, TRUE)
          /\ WordBoundary(s, k + 6)

\* RE_ORDINAL_SEASON = \b([0-9]{1,2})(?:st|nd|rd|th)\s+Season\b, IGNORECASE
ORDINAL_SEASON_At(s, i) ==
    IF ~WordBoundary(s, i) THEN None
    ELSE IF /\ i + 1 <= Len(s) /\ IsDigit(s[i]) /\ IsDigit(s[i + 1])
            /\ OrdinalTail(s, i + 2)
    THEN Some(SubSeq(s, i, i + 1))
    ELSE IF i <= Len(s) /\ IsDigit(s[i]) /\ OrdinalTail(s, i + 1)
    THEN Some(SubSeq(s, i, i))
    ELSE None

\* RE_SEASON_NUM = \bSeason\s*([0-9]{1,2})\b, IGNORECASE
SEASON_NUM_At(s, i) ==
    IF WordBoundary(s, i) /\ LitAt(s, i, Str_Season, TRUE)
    THEN DigitsThenBoundary(s, SkipSpaces(s, i + 6))
    ELSE None

\* RE_PART_NUM = \bPart\s*([0-9]{1,2})\b, IGNORECASE
PART_NUM_At(s, i) ==
    IF WordBoundary(s, i) /\ LitAt(s, i, Str_Part, TRUE)
    THEN DigitsThenBoundary(s, SkipSpaces(s, i + 4))
    ELSE None

\* ROMAN_MAP, in the order of the alternatives of RE_ROMAN
RomanTokens == << <<"I","I">>, <<"I","I","I">>, <<"I","V">>, <<"V">>,
                  <<"V","I">>, <<"V","I","I">>, <<"V","I","I","I">>,
                  <<"I","X">>, <<"X">> >>
RomanValues == <<2, 3, 4, 5, 6, 7, 8, 9, 10>>

\* RE_ROMAN = \b(II|III|IV|V|VI|VII|VIII|IX|X)\b, case-sensitive: the
\* first alternative, in order, after which a word boundary follows
ROMAN_At(s, i) ==
    LET fits(a) == /\ LitAt(s, i, RomanTokens[a], FALSE)
                   /\ WordBoundary(s, i + Len(RomanTokens[a]))
    IN IF WordBoundary(s, i) /\ \E a \in 1..9 : fits(a)
       THEN Some(RomanTokens[CHOOSE a \in 1..9 :
                                 fits(a) /\ \A b \in 1..(a - 1) : ~fits(b)])
       ELSE None

\* \s*$ from position i: only whitespace is left
OnlySpacesFrom(s, i) == SkipSpaces(s, i) = Len(s) + 1

\* RE_TRAILING_NUM = (\d{1,2})\s*$
TRAILING_NUM_At(s, i) ==
    IF /\ i + 1 <= Len(s) /\ IsDigit(s[i]) /\ IsDigit(s[i + 1])
       /\ OnlySpacesFrom(s, i + 2)
    THEN Some(SubSeq(s, i, i + 1))
    ELSE IF i <= Len(s) /\ IsDigit(s[i]) /\ OnlySpacesFrom(s, i + 1)
    THEN Some(SubSeq(s, i, i))
    ELSE None

\* the six compiled patterns, in the order infer_season uses them: the
\* capture of pattern k at position i of s, or None
PatternAt(k, s, i) ==
    CASE k = 1 -> S_OR_SEASON_NUM_At(s, i)
      [] k = 2 -> ORDINAL_SEASON_At(s, i)
      [] k = 3 -> SEASON_NUM_At(s, i)
      [] k = 4 -> PART_NUM_At(s, i)
      [] k = 5 -> ROMAN_At(s, i)
      [] k = 6 -> TRAILING_NUM_At(s, i)

\* pattern.search(s) from position i on: the capture at the leftmost
\* position where pattern k matches, or None
RECURSIVE SearchFrom(_, _, _)
SearchFrom(k, s, i) ==
    IF i > Len(s) THEN None
    ELSE LET m == PatternAt(k, s, i)
         IN IF m # None THEN m ELSE SearchFrom(k, s, i + 1)

Search(k, s) == SearchFrom(k, s, 1)

\* ROMAN_MAP[token]
RomanValue(token) == RomanValues[CHOOSE a \in 1..9 : RomanTokens[a] = token]

\* --------------------------------------------------------- infer_season
\* What each step of the ladder returns when it is reached: Some(n) when
\* it returns n, None when control falls through to the next step.
Rule1(t) == LET m == Search(1, t)
            IN IF m # None THEN Some(DigitsValue(m[1])) ELSE None
Rule2(t) == LET m == Search(2, t)
            IN IF m # None THEN Some(DigitsValue(m[1])) ELSE None
Rule3(t) == LET m == Search(3, t)
            IN IF m # None THEN Some(DigitsValue(m[1])) ELSE None
Rule4(t) == LET m == Search(4, t)
            IN IF m # None THEN Some(DigitsValue(m[1])) ELSE None
Rule5(t) == LET m == Search(5, t)
            IN IF m # None THEN Some(RomanValue(m[1])) ELSE None
Rule6(t) == LET m == Search(6, t)
                n == DigitsValue(m[1])
            IN IF m # None /\ 1 <= n /\ n <= 10 THEN Some(n) ELSE None

\* infer_season with the Roman-numeral step tried before the Part step
infer_season_RomanBeforePart(t) ==
    IF Len(t) = 0 THEN None
    ELSE LET r1 == Rule1(t)
             r2 == Rule2(t)
             r3 == Rule3(t)
             r4 == Rule4(t)
             r5 == Rule5(t)
         IN IF r1 # None THEN r1
            ELSE IF r2 # None THEN r2
            ELSE IF r3 # None THEN r3
            ELSE IF r5 # None THEN r5
            ELSE IF r4 # None THEN r4
            ELSE Rule6(t)

infer_season(t) ==
    IF Len(t) = 0 THEN None
    ELSE LET r1 == Rule1(t)
             r2 == Rule2(t)
             r3 == Rule3(t)
             r4 == Rule4(t)
             r5 == Rule5(t)
         IN IF r1 # None THEN r1
            ELSE IF r2 # None THEN r2
            ELSE IF r3 # None THEN r3
            ELSE IF r4 # None THEN r4
            ELSE IF r5 # None THEN r5
            ELSE Rule6(t)

\* ------------------------------------------------------------- safe_int
\* int(value) of a str: surrounding whitespace and one sign allowed,
\* then digits, single underscores between digits allowed.
\* Some(n), or None where int() raises ValueError.
PyInt(value) ==
    LET v == Strip(value)
        signed == Len(v) > 0 /\ v[1] \in {"+", "-"}
        body == IF signed THEN Tail(v) ELSE v
        wellFormed ==
            /\ Len(body) > 0
            /\ \A i \in 1..Len(body) : IsDigit(body[i]) \/ body[i] = "_"
            /\ body[1] # "_"
            /\ body[Len(body)] # "_"
            /\ \A i \in 1..(Len(body) - 1) : ~(body[i] = "_" /\ body[i + 1] = "_")
        n == DigitsValue(SelectSeq(body, IsDigit))
    IN IF ~wellFormed THEN None
       ELSE IF signed /\ v[1] = "-" THEN Some(0 - n)
       ELSE Some(n)

\* safe_int(value, default): value is an optional text
safe_int(value, default) ==
    IF value = None THEN default
    ELSE IF PyInt(value[1]) = None THEN default
    ELSE PyInt(value[1])[1]

\* text(el, tag): el[tag] is what el.findtext(tag) returns, an optional text
text(el, tag) ==
    IF el[tag] = None THEN None
    ELSE IF Strip(el[tag][1]) = << >> THEN None
    ELSE Some(Strip(el[tag][1]))

\* ------------------------------------------------ map_kind and map_status
Str_movie == <<"m","o","v","i","e">>
Str_watching == <<"w","a","t","c","h","i","n","g">>
Str_completed == <<"c","o","m","p","l","e","t","e","d">>
Str_plan_to_watch == <<"p","l","a","n"," ","t","o"," ","w","a","t","c","h">>
Str_on_hold == <<"o","n","-","h","o","l","d">>
Str_dropped == <<"d","r","o","p","p","e","d">>
Str_TV == <<"T","V">>
Str_Movie == <<"M","o","v","i","e">>
Str_MAL_On_Hold == <<"M","A","L",":"," ","O","n","-","H","o","l","d">>
Str_MAL_Dropped == <<"M","A","L",":"," ","D","r","o","p","p","e","d">>
Str_MAL_type == <<"M","A","L"," ","t","y","p","e",":"," ">>
Str_Separator == <<" ","|"," ">>

\* map_kind(series_type): series_type is an optional text
map_kind(series_type) ==
    IF series_type # None /\ series_type[1] # << >>
       /\ Lower(Strip(series_type[1])) = Str_movie
    THEN "MOVIE"
    ELSE "SERIES"

\* map_status without the early return for is_rewatching
map_status_NoRewatchPriority(mal_status, is_rewatching) ==
    IF mal_status = None \/ mal_status[1] = << >> THEN "PLAN"
    ELSE LET st == Lower(Strip(mal_status[1]))
         IN IF st = Str_watching THEN "WATCHING"
            ELSE IF st = Str_completed THEN "COMPLETED"
            ELSE IF st = Str_plan_to_watch THEN "PLAN"
            ELSE IF st = Str_on_hold THEN "WAITING"
            ELSE IF st = Str_dropped THEN "PLAN"
            ELSE "PLAN"

\* map_status(mal_status, is_rewatching): mal_status is an optional text
map_status(mal_status, is_rewatching) ==
    IF is_rewatching THEN "REWATCH"
    ELSE IF mal_status = None \/ mal_status[1] = << >> THEN "PLAN"
    ELSE LET st == Lower(Strip(mal_status[1]))
         IN IF st = Str_watching THEN "WATCHING"
            ELSE IF st = Str_completed THEN "COMPLETED"
            ELSE IF st = Str_plan_to_watch THEN "PLAN"
            ELSE IF st = Str_on_hold THEN "WAITING"
            ELSE IF st = Str_dropped THEN "PLAN"
            ELSE "PLAN"

\* ------------------------------------------------------------- split_tags
\* raw.split(","): the pieces between the commas, empty ones included
RECURSIVE SplitComma(_)
SplitComma(raw) ==
    IF \A i \in 1..Len(raw) : raw[i] # ","
    THEN <<raw>>
    ELSE LET c == CHOOSE i \in 1..Len(raw) :
                      raw[i] = "," /\ \A j \in 1..(i - 1) : raw[j] # ","
         IN <<SubSeq(raw, 1, c - 1)>> \o SplitComma(SubSeq(raw, c + 1, Len(raw)))

NonEmpty(piece) == piece # << >>

\* split_tags(raw): raw is an optional text
split_tags(raw) ==
    IF raw = None \/ raw[1] = << >> THEN << >>
    ELSE LET pieces == SplitComma(raw[1])
             parts == [i \in 1..Len(pieces) |-> Strip(pieces[i])]
         IN SelectSeq(parts, NonEmpty)

\* " | ".join(parts)
RECURSIVE Join(_)
Join(parts) ==
    IF Len(parts) = 0 THEN << >>
    ELSE IF Len(parts) = 1 THEN parts[1]
    ELSE parts[1] \o Str_Separator \o Join(Tail(parts))

\* ------------------------------------------------------------- build_item
\* mal_status and mal_status.strip().lower() == lit
StatusIs(mal_status, lit) ==
    /\ mal_status # None
    /\ mal_status[1] # << >>
    /\ Lower(Strip(mal_status[1])) = lit

\* the episode taken from the watched count whatever the status
EpisodeOf_WatchedAlways(status, rewatch_ep, watched_eps) ==
    IF status \in {"WATCHING", "REWATCH"}
    THEN IF watched_eps = 0 THEN None ELSE Some(watched_eps)
    ELSE None

\* the "Episode logic" of build_item
EpisodeOf(status, rewatch_ep, watched_eps) ==
    IF status \in {"WATCHING", "REWATCH"}
    THEN LET episode == IF status = "REWATCH" THEN rewatch_ep ELSE watched_eps
         IN IF episode = 0 THEN None ELSE Some(episode)
    ELSE None

\* the "Notes" of build_item
NotesOf(mal_status, series_type) ==
    LET notes_parts ==
            (IF StatusIs(mal_status, Str_on_hold)
             THEN <<Str_MAL_On_Hold>> ELSE << >>)
            \o (IF StatusIs(mal_status, Str_dropped)
                THEN <<Str_MAL_Dropped>> ELSE << >>)
            \o (IF series_type # None /\ series_type[1] \notin {Str_TV, Str_Movie}
                THEN <<Str_MAL_type \o series_type[1]>> ELSE << >>)
    IN IF notes_parts # << >> THEN Some(Join(notes_parts)) ELSE None

\* the item build_item returns once the record is not filtered out
ItemOf(el, infer_flag) ==
    LET title == IF text(el, "series_title") # None
                 THEN text(el, "series_title")[1] ELSE << >>
        series_type == text(el, "series_type")
        mal_status == text(el, "my_status")
        is_rewatching == safe_int(text(el, "my_rewatching"), 0) = 1
        rewatch_ep == safe_int(text(el, "my_rewatching_ep"), 0)
        watched_eps == safe_int(text(el, "my_watched_episodes"), 0)
        score == safe_int(text(el, "my_score"), 0)
        status == map_status(mal_status, is_rewatching)
    IN [title |-> title,
        kind |-> map_kind(series_type),
        status |-> status,
        season |-> IF infer_flag THEN infer_season(title) ELSE None,
        episode |-> EpisodeOf(status, rewatch_ep, watched_eps),
        absolute_episode |-> None,
        notes |-> NotesOf(mal_status, series_type),
        tags |-> split_tags(text(el, "my_tags")),
        rating |-> IF score = 0 THEN None ELSE Some(score),
        cover_url |-> None,
        banner_key |-> None,
        image_url |-> None]

\* build_item that keeps the Dropped records whatever include_dropped is
build_item_NoFilter(el, incl_dropped, infer_flag) ==
    Some(ItemOf(el, infer_flag))

\* build_item(anime_el, include_dropped, infer_season_flag): None when the
\* record is filtered out, Some(item) otherwise
build_item(el, incl_dropped, infer_flag) ==
    IF StatusIs(text(el, "my_status"), Str_dropped) /\ ~incl_dropped
    THEN None
    ELSE Some(ItemOf(el, infer_flag))

\* ------------------------------------------------------- titles checked
RECURSIVE Flatten(_)
Flatten(ss) == IF Len(ss) = 0 THEN << >> ELSE Head(ss) \o Flatten(Tail(ss))

TitleFragments ==
    { <<"S">>, <<"s">>, Str_Season, Str_Part,
      <<"2","n","d"," ">> \o Str_Season,
      <<" ","I","I">>, <<"I">>, <<"X">>, <<"a">>, <<"0">>, <<"1">>, <<"2">>,
      <<" ">>, <<":">> }

Titles ==
    UNION { { Flatten(fs) : fs \in [1..n -> TitleFragments] } : n \in 0..MaxFrags }

\* ------------------------------------------------ <anime> elements checked
\* what findtext gives for my_status
StatusTexts ==
    { None,
      Some(<< >>),
      Some(<<"D","r","o","p","p","e","d">>),
      Some(<<"D","R","O","P","P","E","D">>),
      Some(<<" ","d","r","o","p","p","e","d","\n">>),
      Some(<<"W","a","t","c","h","i","n","g">>),
      Some(<<"W","A","T","C","H","I","N","G"," ">>),
      Some(<<"C","o","m","p","l","e","t","e","d">>),
      Some(<<"P","l","a","n"," ","t","o"," ","W","a","t","c","h">>),
      Some(<<"O","n","-","H","o","l","d">>),
      Some(<<"D","r","o","p","p","e","d","!">>),
      Some(<<"P","a","u","s","e","d">>) }

\* what findtext gives for my_rewatching
RewatchingTexts ==
    { None,
      Some(<<"0">>),
      Some(<<"1">>),
      Some(<<"0","1">>),
      Some(<<"y","e","s">>) }

\* what findtext gives for my_rewatching_ep and my_watched_episodes
CountTexts ==
    { None,
      Some(<<"0">>),
      Some(<<"5">>),
      Some(<<"-","3">>),
      Some(<<"x">>) }

\* the other children of an element: title, type, score, tags, id
OtherFields ==
    { [series_title |-> Some(<<"S","0">>),
       series_type |-> Some(<<"T","V">>), my_score |-> Some(<<"7">>),
       my_tags |-> Some(<<" ","a",","," ","b"," ",",",",","c"," ">>),
       series_animedb_id |-> Some(<<"1">>)],
      [series_title |-> None,
       series_type |-> None, my_score |-> None,
       my_tags |-> None,
       series_animedb_id |-> None],
      [series_title |-> Some(<<"a"," ","2">>),
       series_type |-> Some(<<"O","V","A">>), my_score |-> Some(<<"0">>),
       my_tags |-> Some(<< >>),
       series_animedb_id |-> Some(<<"2","0">>)],
      [series_title |-> Some(<<"P","a","r","t","1"," ","I","I">>),
       series_type |-> Some(<<"m","o","v","i","e"," ">>), my_score |-> Some(<<"x">>),
       my_tags |-> Some(<<"a">>),
       series_animedb_id |-> None] }

Element(o, st, rw, rep, wep) ==
    [series_title |-> o.series_title,
     series_type |-> o.series_type,
     my_status |-> st,
     my_rewatching |-> rw,
     my_rewatching_ep |-> rep,
     my_watched_episodes |-> wep,
     my_score |-> o.my_score,
     my_tags |-> o.my_tags,
     series_animedb_id |-> o.series_animedb_id]

AnimeElements ==
    { Element(o, st, rw, rep, wep) :
        o \in OtherFields, st \in StatusTexts, rw \in RewatchingTexts,
        rep \in CountTexts, wep \in CountTexts }

\* ------------------------------------------------ idle parts of the state
SeasonIdle == s_pc = "idle" /\ series_title = << >> /\ season = None

ItemIdle ==
    /\ b_pc = "idle"
    /\ anime_el = << >>
    /\ b_include_dropped = FALSE
    /\ b_infer_season_flag = FALSE
    /\ b_item = None

RunIdle ==
    /\ pc = "idle"
    /\ argv = "none"
    /\ input_file = [state |-> "missing", root |-> << >>]
    /\ include_dropped = FALSE
    /\ infer_season_flag = FALSE
    /\ old_output = None
    /\ output_file = None
    /\ idx = 0
    /\ items = << >>
    /\ converted = FALSE
    /\ stdout = << >>
    /\ stderr = << >>
    /\ exit_code = None

\* --------------------------------------- specification: infer_season alone
InitSeason ==
    /\ s_pc = "call"
    /\ series_title \in Titles
    /\ season = None
    /\ ItemIdle
    /\ RunIdle

\* season = infer_season(series_title)
InferSeason ==
    /\ s_pc = "call"
    /\ season' = infer_season(series_title)
    /\ s_pc' = "returned"
    /\ UNCHANGED <<series_title, item_vars, run_vars>>

NextSeason == InferSeason

SpecSeason == InitSeason /\ [][NextSeason]_vars

\* ------------------------------------------------- claims on infer_season
\* the rules of the ladder whose pattern matches somewhere in the title
MatchingRules(t) ==
    {k \in 1..6 : \E i \in 1..Len(t) : PatternAt(k, t, i) # None}

\* the number rule k extracts from its leftmost match in the title
ExtractedBy(t, k) ==
    IF k = 5 THEN RomanValue(Search(5, t)[1])
    ELSE DigitsValue(Search(k, t)[1])

\* the number the title ends in: its longest run of digits before the
\* trailing whitespace (empty when the title does not end in a digit)
TrailingDigits(t) ==
    LET e == CHOOSE j \in 0..Len(t) :
                 /\ \A k \in (j + 1)..Len(t) : IsSpace(t[k])
                 /\ (j = 0 \/ ~IsSpace(t[j]))
        b == CHOOSE j \in 1..(e + 1) :
                 /\ \A k \in j..e : IsDigit(t[k])
                 /\ (j = 1 \/ ~IsDigit(t[j - 1]))
    IN SubSeq(t, b, e)

\* C4: infer_season returns "no inference" or a positive integer (>= 1),
\* whichever rule produced it.
C4_SeasonIsPositive ==
    s_pc = "returned" => (season = None \/ season[1] >= 1)

\* C9: infer_season returns the value of the first rule, in the order 1..6,
\* whose pattern matches anywhere in the title (for rule 6, the trailing
\* number when the rule accepts it); a later rule's value is returned only
\* when no earlier rule matches; an empty title yields no inference.
C9_FirstMatchingRuleWins ==
    s_pc = "returned" =>
        LET rules == MatchingRules(series_title)
            first == CHOOSE k \in rules : \A j \in rules : k <= j
        IN /\ Len(series_title) = 0 => season = None
           /\ rules = {} => season = None
           /\ (rules # {} /\ first <= 5) =>
                  season = Some(ExtractedBy(series_title, first))
           /\ (rules # {} /\ first = 6) =>
                  season \in {None, Some(ExtractedBy(series_title, 6))}
           /\ \A k \in 1..6 :
                  (season # None /\ k \in rules
                   /\ season # Some(ExtractedBy(series_title, k)))
                  => \E j \in rules : j < k

\* C9 witness: a title matching both rule 4 (Part 1) and rule 5 (II) has
\* been given the Part number.
C9_Witness ==
    /\ s_pc = "returned"
    /\ {4, 5} \subseteq MatchingRules(series_title)
    /\ ExtractedBy(series_title, 4) = 1
    /\ ExtractedBy(series_title, 5) = 2
    /\ season = Some(1)

\* C10: for a title that matches none of rules 1-5 and ends in a number,
\* the result is that number when its value is within 1..10 and "no
\* inference" when it is outside (0, 11..99, or a longer number).
C10_TrailingNumberRange ==
    (/\ s_pc = "returned"
     /\ MatchingRules(series_title) \cap 1..5 = {}
     /\ TrailingDigits(series_title) # << >>) =>
        LET n == DigitsValue(TrailingDigits(series_title))
        IN IF 1 <= n /\ n <= 10 THEN season = Some(n) ELSE season = None

\* ----------------------------------------- specification: build_item alone
InitItem ==
    /\ b_pc = "call"
    /\ anime_el \in AnimeElements
    /\ b_include_dropped \in BOOLEAN
    /\ b_infer_season_flag \in BOOLEAN
    /\ b_item = None
    /\ SeasonIdle
    /\ RunIdle

\* b_item = build_item(anime_el, include_dropped, infer_season_flag)
BuildItem ==
    /\ b_pc = "call"
    /\ b_item' = build_item(anime_el, b_include_dropped, b_infer_season_flag)
    /\ b_pc' = "returned"
    /\ UNCHANGED <<anime_el, b_include_dropped, b_infer_season_flag,
                   season_vars, run_vars>>

NextItem == BuildItem

SpecItem == InitItem /\ [][NextItem]_vars

\* --------------------------------------------------- claims on build_item
\* sub occurs in s
Contains(s, sub) == \E i \in 1..Len(s) : LitAt(s, i, sub, FALSE)

\* the element's status is "Dropped" in any letter case
IsDropped(el) ==
    el.my_status # None /\ Lower(Strip(el.my_status[1])) = Str_dropped

\* the element's rewatching flag is set: my_rewatching parses to 1
IsRewatching(el) ==
    el.my_rewatching # None /\ PyInt(el.my_rewatching[1]) = Some(1)

\* the integer an element's count reads as (0 when absent or unparsable)
CountOf(el, tag) == safe_int(text(el, tag), 0)

C5_EpisodeIsPositive ==
    (b_pc = "returned" /\ b_item # None) =>
        (b_item[1].episode = None \/ b_item[1].episode[1] >= 1)

\* C6: the episode is present exactly when the mapped status is WATCHING or
\* REWATCH and the relevant count is non-zero, and then equals that count:
\* the rewatch-episode count for REWATCH, the watched-episode count for
\* WATCHING.
C6_EpisodeRule ==
    (b_pc = "returned" /\ b_item # None) =>
        LET status == b_item[1].status
            count == IF status = "REWATCH"
                     THEN CountOf(anime_el, "my_rewatching_ep")
                     ELSE CountOf(anime_el, "my_watched_episodes")
        IN /\ b_item[1].episode # None
                  <=> (status \in {"WATCHING", "REWATCH"} /\ count # 0)
           /\ b_item[1].episode # None => b_item[1].episode = Some(count)

\* C6 witness: a rewatched record carries its rewatch-episode count, which
\* differs from its watched-episode count.
C6_Witness ==
    /\ b_pc = "returned"
    /\ b_item # None
    /\ b_item[1].status = "REWATCH"
    /\ CountOf(anime_el, "my_rewatching_ep") = 5
    /\ CountOf(anime_el, "my_watched_episodes") = -3
    /\ b_item[1].episode = Some(5)

\* the spec's table for a status text, trimmed and lower-cased
StatusTable ==
    (Str_watching :> "WATCHING") @@ (Str_completed :> "COMPLETED")
    @@ (Str_plan_to_watch :> "PLAN") @@ (Str_on_hold :> "WAITING")
    @@ (Str_dropped :> "PLAN")

\* C7: the mapped status of every retained record is REWATCH when the
\* rewatching flag is set; otherwise PLAN when my_status is absent or empty;
\* otherwise the table's entry for the trimmed, lower-cased status, and PLAN
\* for any other value.  Every record gets one of the five statuses.
C7_StatusPriorityTable ==
    (b_pc = "returned" /\ b_item # None) =>
        LET raw == anime_el.my_status
            key == IF raw = None THEN << >> ELSE Lower(Strip(raw[1]))
        IN /\ b_item[1].status \in
                  {"WATCHING", "COMPLETED", "PLAN", "WAITING", "REWATCH"}
           /\ b_item[1].status =
                  (CASE IsRewatching(anime_el) -> "REWATCH"
                     [] ~IsRewatching(anime_el) /\ key = << >> -> "PLAN"
                     [] ~IsRewatching(anime_el) /\ key \in DOMAIN StatusTable
                            -> StatusTable[key]
                     [] OTHER -> "PLAN")

\* C7 witness: a record with status Completed and the rewatching flag set
\* was mapped to REWATCH.
C7_Witness ==
    /\ b_pc = "returned"
    /\ b_item # None
    /\ anime_el.my_status # None
    /\ Lower(Strip(anime_el.my_status[1])) = Str_completed
    /\ IsRewatching(anime_el)
    /\ b_item[1].status = "REWATCH"

\* ------------------------------------------------------ a run of main()
\* The <anime> elements the input documents of a run are made of.
RunElements ==
    { [series_title |-> Some(<<"a"," ","2">>), series_type |-> Some(<<"T","V">>),
       my_status |-> Some(<<"D","r","o","p","p","e","d">>), my_rewatching |-> Some(<<"0">>),
       my_rewatching_ep |-> None, my_watched_episodes |-> Some(<<"5">>),
       my_score |-> Some(<<"7">>), my_tags |-> None, series_animedb_id |-> None],
      [series_title |-> Some(<<"S","0">>), series_type |-> Some(<<"O","V","A">>),
       my_status |-> Some(<<"W","a","t","c","h","i","n","g">>), my_rewatching |-> None,
       my_rewatching_ep |-> None, my_watched_episodes |-> Some(<<"-","3">>),
       my_score |-> None, my_tags |-> Some(<<"a",","," ","b">>), series_animedb_id |-> None],
      [series_title |-> None, series_type |-> None,
       my_status |-> Some(<<" ","d","r","o","p","p","e","d"," ">>), my_rewatching |-> Some(<<"1">>),
       my_rewatching_ep |-> Some(<<"5">>), my_watched_episodes |-> None,
       my_score |-> Some(<<"0">>), my_tags |-> None, series_animedb_id |-> None],
      [series_title |-> Some(<<"P","a","r","t","1"," ","I","I">>), series_type |-> None,
       my_status |-> None, my_rewatching |-> None,
       my_rewatching_ep |-> None, my_watched_episodes |-> None,
       my_score |-> None, my_tags |-> None, series_animedb_id |-> None] }

\* root.findall("anime") of the well-formed input documents
Documents == UNION { [1..n -> RunElements] : n \in 0..MaxRecords }

\* The file at input_path: missing or unreadable, not well-formed, or a
\* document with its `anime` elements.
InputFiles ==
    { [state |-> "missing", root |-> << >>],
      [state |-> "malformed", root |-> << >>] }
    \cup { [state |-> "ok", root |-> d] : d \in Documents }

\* The file at output_path: what json.dump has written of the array so
\* far (the items, then the closing bracket), or content of an earlier run.
OldContent == [from |-> "before", written |-> << >>, complete |-> TRUE]
Truncated == [from |-> "run", written |-> << >>, complete |-> FALSE]
Serialized(its) == [from |-> "run", written |-> its, complete |-> TRUE]

\* the body of the loop over the records, with the new item put first
LoopBody_Prepend(acc, item) ==
    IF item # None THEN <<item[1]>> \o acc ELSE acc

\* if item is not None: items.append(item)
LoopBody(acc, item) ==
    IF item # None THEN Append(acc, item[1]) ELSE acc

Init ==
    /\ pc = "parse_args"
    /\ argv \in {"ok", "unusable", "help"}
    /\ input_file \in InputFiles
    /\ include_dropped \in BOOLEAN
    /\ infer_season_flag \in BOOLEAN
    /\ old_output \in {None, Some(OldContent)}
    /\ output_file = old_output
    /\ idx = 0
    /\ items = << >>
    /\ converted = FALSE
    /\ stdout = << >>
    /\ stderr = << >>
    /\ exit_code = None
    /\ SeasonIdle
    /\ ItemIdle

\* parser.parse_args(): argparse exits by itself on unusable arguments
\* (usage and error on stderr, status 2) and on -h (help on stdout, status 0)
ParseArgs ==
    /\ pc = "parse_args"
    /\ \/ /\ argv = "ok"
          /\ pc' = "ET.parse"
          /\ UNCHANGED <<stdout, stderr, exit_code>>
       \/ /\ argv = "unusable"
          /\ stderr' = stderr \o <<"usage: ...", "error: ...">>
          /\ exit_code' = Some(2)
          /\ pc' = "exited"
          /\ UNCHANGED stdout
       \/ /\ argv = "help"
          /\ stdout' = Append(stdout, "usage: ... (help)")
          /\ exit_code' = Some(0)
          /\ pc' = "exited"
          /\ UNCHANGED stderr
    /\ UNCHANGED <<argv, input_file, include_dropped, infer_season_flag,
                   old_output, output_file, idx, items, converted,
                   season_vars, item_vars>>

\* tree = ET.parse(str(input_path)); root = tree.getroot(); items = []
ParseInput ==
    /\ pc = "ET.parse"
    /\ \/ /\ input_file.state = "ok"
          /\ pc' = "loop"
       \/ /\ input_file.state # "ok"
          /\ pc' = "except"
    /\ idx' = 0
    /\ items' = << >>
    /\ UNCHANGED <<argv, input_file, include_dropped, infer_season_flag,
                   old_output, output_file, converted, stdout, stderr,
                   exit_code, season_vars, item_vars>>

\* one turn of: for anime in root.findall("anime")
ConvertRecord ==
    /\ pc = "loop"
    /\ idx < Len(input_file.root)
    /\ items' = LoopBody(items, build_item(input_file.root[idx + 1],
                                           include_dropped, infer_season_flag))
    /\ idx' = idx + 1
    /\ UNCHANGED <<pc, argv, input_file, include_dropped, infer_season_flag,
                   old_output, output_file, converted, stdout, stderr,
                   exit_code, season_vars, item_vars>>

\* output_path.parent.mkdir(parents=True, exist_ok=True): may raise OSError
MakeParentDir ==
    /\ pc = "loop"
    /\ idx = Len(input_file.root)
    /\ \/ pc' = "open"
       \/ pc' = "except"
    /\ UNCHANGED <<argv, input_file, include_dropped, infer_season_flag,
                   old_output, output_file, idx, items, converted, stdout,
                   stderr, exit_code, season_vars, item_vars>>

\* output_path.open("w"): truncates the file, or raises OSError
OpenOutput ==
    /\ pc = "open"
    /\ \/ /\ output_file' = Some(Truncated)
          /\ pc' = "json.dump"
       \/ /\ pc' = "except"
          /\ UNCHANGED output_file
    /\ UNCHANGED <<argv, input_file, include_dropped, infer_season_flag,
                   old_output, idx, items, converted, stdout, stderr,
                   exit_code, season_vars, item_vars>>

\* json.dump(items, f, ...): writes the array piece by piece; a write (or
\* the flush when the file is closed) may raise OSError
WriteOutput ==
    /\ pc = "json.dump"
    /\ LET f == output_file[1]
       IN \/ /\ Len(f.written) < Len(items)
             /\ output_file' =
                    Some([f EXCEPT !.written = Append(@, items[Len(@) + 1])])
             /\ UNCHANGED <<pc, converted>>
          \/ /\ Len(f.written) = Len(items)
             /\ output_file' = Some([f EXCEPT !.complete = TRUE])
             /\ converted' = TRUE
             /\ pc' = "print"
          \/ /\ pc' = "except"
             /\ UNCHANGED <<output_file, converted>>
    /\ UNCHANGED <<argv, input_file, include_dropped, infer_season_flag,
                   old_output, idx, items, stdout, stderr, exit_code,
                   season_vars, item_vars>>

\* the handler without its sys.exit(1): main() goes on to its last line
ReportError_NoExit ==
    /\ pc = "except"
    /\ stderr' = Append(stderr, "Error: ...")
    /\ pc' = "print"
    /\ UNCHANGED <<argv, input_file, include_dropped, infer_season_flag,
                   old_output, output_file, idx, items, converted, stdout,
                   exit_code, season_vars, item_vars>>

\* except Exception as e: print(f"Error: {e}", file=sys.stderr); sys.exit(1)
ReportError ==
    /\ pc = "except"
    /\ stderr' = Append(stderr, "Error: ...")
    /\ exit_code' = Some(1)
    /\ pc' = "exited"
    /\ UNCHANGED <<argv, input_file, include_dropped, infer_season_flag,
                   old_output, output_file, idx, items, converted, stdout,
                   season_vars, item_vars>>

\* print(f"Wrote {args.output_json}") and the normal end of main()
PrintWrote ==
    /\ pc = "print"
    /\ stdout' = Append(stdout, "Wrote ...")
    /\ exit_code' = Some(0)
    /\ pc' = "exited"
    /\ UNCHANGED <<argv, input_file, include_dropped, infer_season_flag,
                   old_output, output_file, idx, items, converted, stderr,
                   season_vars, item_vars>>

Next ==
    \/ ParseArgs
    \/ ParseInput
    \/ ConvertRecord
    \/ MakeParentDir
    \/ OpenOutput
    \/ WriteOutput
    \/ ReportError
    \/ PrintWrote

Spec == Init /\ [][Next]_vars

\* ------------------------------------------------------ claims on a run
\* a record is filtered out: its status is Dropped and include_dropped is false
FilteredOut(el) == IsDropped(el) /\ ~include_dropped

\* the positions, in document order, of the records of doc that are retained
RECURSIVE RetainedPositions(_, _)
RetainedPositions(doc, n) ==
    IF n = 0 THEN << >>
    ELSE IF FilteredOut(doc[n]) THEN RetainedPositions(doc, n - 1)
    ELSE Append(RetainedPositions(doc, n - 1), n)

\* the conversion ran: usable arguments and a well-formed input document
Converting == argv = "ok" /\ input_file.state = "ok" /\ pc \notin {"parse_args", "ET.parse"}

\* C1: the items built so far are exactly the retained records among those
\* read so far, one item each, in document order; a record is removed only
\* when its status is Dropped and include_dropped is false; the returned
\* sequence covers the whole document.
C1_OrderPreservedMinusFiltered ==
    Converting =>
        LET kept == RetainedPositions(input_file.root, idx)
        IN /\ Len(items) = Len(kept)
           /\ \A j \in 1..Len(kept) :
                  Some(items[j]) = build_item(input_file.root[kept[j]],
                                              include_dropped, infer_season_flag)
           /\ converted => idx = Len(input_file.root)

\* C1 witness: a run returned one item for a two-record document whose
\* first record was Dropped and excluded.
C1_Witness ==
    /\ converted
    /\ pc = "exited"
    /\ Len(input_file.root) = 2
    /\ FilteredOut(input_file.root[1])
    /\ ~FilteredOut(input_file.root[2])
    /\ Len(items) = 1

\* C3: a run that fails at any step leaves the output file as it was before
\* the run or holding the complete serialization, never empty or truncated;
\* a run that completes leaves the full array.
C3_NoPartialOutput ==
    pc = "exited" =>
        /\ (exit_code # Some(0)) =>
               output_file \in {old_output, Some(Serialized(items))}
        /\ converted => output_file = Some(Serialized(items))

\* the run ended in a failure: it did not convert, and was not asked for help only
Failed == pc = "exited" /\ ~converted /\ argv # "help"

\* C8, as stated: exit code 0 exactly when the conversion succeeded, after
\* the confirmation line; exit code 1 on any failure, unusable arguments
\* included, with a single-line message on the error stream; never the
\* confirmation line after a failure.
C8_ExitZeroIffConverted ==
    pc = "exited" =>
        /\ exit_code = Some(0) <=> converted
        /\ converted => stdout = <<"Wrote ...">>
        /\ ~converted => /\ exit_code = Some(1)
                         /\ Len(stderr) = 1
                         /\ stdout = << >>

\* C8, amended: exit code 0 when the conversion succeeded (after the
\* confirmation line) or when only the help text was asked for; exit code 1
\* with a single "Error: ..." line on the error stream when the conversion
\* fails; exit code 2 with argparse's usage and error lines when the
\* arguments are unusable; never the confirmation line after a failure.
C8_ExitCodes ==
    pc = "exited" =>
        /\ converted => (exit_code = Some(0) /\ stdout = <<"Wrote ...">>
                         /\ stderr = << >>)
        /\ (exit_code = Some(0) /\ ~converted) =>
               (argv = "help" /\ "Wrote ..." \notin Range(stdout))
        /\ Failed =>
               /\ "Wrote ..." \notin Range(stdout)
               /\ IF argv = "unusable"
                  THEN exit_code = Some(2) /\ Len(stderr) = 2
                  ELSE exit_code = Some(1) /\ stderr = <<"Error: ...">>

\* C8 witness: a run with usable arguments failed while writing the output
\* and exited with code 1.
C8_Witness ==
    /\ Failed
    /\ argv = "ok"
    /\ input_file.state = "ok"
    /\ output_file = Some(Truncated)
    /\ exit_code = Some(1)

====
